---------------------------- MODULE Spec2Model ----------------------------
(***************************************************************************)
(* ChessCoin: stake escrow and match resolution.                           *)
(*                                                                         *)
(* The database (Balance, TxLedger, Match, Escrow) is the record db.  The  *)
(* wallet functions holdStake and resolveMatch are Prisma interactive      *)
(* transactions; the database runs them READ COMMITTED, so a transaction   *)
(* is two steps: the read that decides whether it goes on (the balance     *)
(* check, the match.result check) and the commit that applies its writes   *)
(* to the state committed at that moment.  Other transactions may commit   *)
(* between the two.  A transaction that throws is rolled back: the commit  *)
(* operator returns the database unchanged.                                *)
(*                                                                         *)
(* The in-memory maps of the server (mmQueues, pendingStakeByUser,         *)
(* pendingChallenges) are variables; a request handler, a stream event     *)
(* callback or a timer callback in flight is an entry of calls, which      *)
(* advances one await at a time.                                           *)
(***************************************************************************)
EXTENDS Integers, Sequences, FiniteSets, TLC

(* ------------------------------ bounds -------------------------------- *)
\* match rows the database may hold beyond the seed row 0
MaxMatches == 2
\* match rows the wallet-level specifications create
WalletMatches == 1
\* external game ids the event feed may signal: 1..MaxGames
MaxGames == 1
\* handlers, callbacks and wallet transactions in flight at once
MaxCalls == 2
\* requests, stream events and deadlines the server takes up in one run
MaxServed == 4
\* the largest stake a request may name
MaxStake == 2
\* holdStake calls one escrow row may take before further ones are left out
MaxHolds == 2

(* -------------------------- program constants ------------------------- *)
DrawReward == 3
WinReward == 8
OtherReward == 1

Users == {"a", "b"}
\* a userId that has no Balance row
NoAccount == "nobody"
NoUser == "null"
NoResult == "null"
Results == {"W", "L", "D", "abort"}
Colors == {"white", "black"}
Stakes == 1..MaxStake
Games == 1..MaxGames
MatchIds == 0..MaxMatches
Calls == 1..MaxCalls

\* TxLedger.ref and Match.lichessGameId values
NoRef == <<"null", 0>>
MatchRef(m) == <<"match", m>>
GameRef(g) == <<"game", g>>
\* `cancel-${Date.now()}`: one per cancelled match
CancelRef(m) == <<"cancel", m>>
GameRefs == {GameRef(g) : g \in Games}
CancelRefs == {CancelRef(m) : m \in MatchIds}

VARIABLES
    db,                  \* [balance, ledger, match, escrow, user]
    mmQueues,            \* stake key -> sequence of userIds (tickets)
    pendingStakeByUser,  \* userId -> matchId, for the users that have an entry
    pendingChallenges,   \* matchId -> [aUserId, bUserId, started]
    timers,              \* matchId -> the setTimeout armed for it: [state, kind, a, b]
    calls,               \* call slot -> the handler or transaction in flight
    served,              \* handler invocations begun (bounds the run)
    settled              \* matchId -> resolveMatch commits that wrote ledger entries or changed the escrow row

vars == <<db, mmQueues, pendingStakeByUser, pendingChallenges, timers, calls, served, settled>>

(* ------------------------------ database ------------------------------ *)
\* a function extended or overwritten at one point
Put(f, k, v) == [x \in DOMAIN f \cup {k} |-> IF x = k THEN v ELSE f[x]]
\* Map.delete
Drop(f, k) == [x \in DOMAIN f \ {k} |-> f[x]]

RECURSIVE SumOver(_, _)
SumOver(S, f) ==
    IF S = {} THEN 0
    ELSE LET x == CHOOSE y \in S : TRUE IN f[x] + SumOver(S \ {x}, f)

MatchRow(stake) ==
    [stakeCC |-> stake, lichessGameId |-> NoRef, whiteId |-> NoUser,
     blackId |-> NoUser, result |-> NoResult]

\* Match_lichessGameId_key: no other row may carry the same non-null game id
GameIdTaken(d, m, gid) ==
    \E x \in DOMAIN d.match : x # m /\ d.match[x].lichessGameId = gid

HasTx(d, userId, type, ref) ==
    \E e \in d.ledger : e.userId = userId /\ e.type = type /\ e.ref = ref

\* an ensureTx that moves the balance again when the entry exists
EnsureTxRecredits(d, userId, type, amount, ref) ==
    IF HasTx(d, userId, type, ref) THEN [d EXCEPT !.balance[userId] = @ + amount]
    ELSE [d EXCEPT !.ledger = @ \cup {[userId |-> userId, type |-> type,
                                       amount |-> amount, ref |-> ref]},
                   !.balance[userId] = @ + amount]

\* ensureTx: the entry of the key (userId, type, ref), created and added to
\* the balance when there is none
EnsureTx(d, userId, type, amount, ref) ==
    IF HasTx(d, userId, type, ref) THEN d
    ELSE [d EXCEPT !.ledger = @ \cup {[userId |-> userId, type |-> type,
                                       amount |-> amount, ref |-> ref]},
                   !.balance[userId] = @ + amount]

\* a hold that never finds the funds short
HoldFundsAlways(d, who, stake) == who \in DOMAIN d.balance

\* holdStake, the read: const bal = ...; if (!bal || bal.chessCC < stake) throw
HoldFunds(d, who, stake) == who \in DOMAIN d.balance /\ d.balance[who] >= stake

\* holdStake, the writes: ensureTx(stake_hold) then escrow create or update
HoldCommit(d, m, who, color, stake) ==
    LET d1 == EnsureTx(d, who, "stake_hold", 0 - stake, MatchRef(m))
        w == IF color = "white" THEN stake ELSE 0
        b == IF color = "black" THEN stake ELSE 0
    IN  IF m \notin DOMAIN d.match THEN d
        ELSE IF m \notin DOMAIN d.escrow
        THEN [d1 EXCEPT !.escrow =
                 Put(@, m, [whiteHold |-> w, blackHold |-> b, status |-> "held"])]
        ELSE [d1 EXCEPT !.escrow[m].whiteHold = @ + w,
                        !.escrow[m].blackHold = @ + b]

\* resolveMatch, the read: MATCH_NOT_FOUND, or return when match.result is set
ResolveOpen(d, m) == m \in DOMAIN d.match /\ d.match[m].result = NoResult

StakeWhite(d, m) == IF m \in DOMAIN d.escrow THEN d.escrow[m].whiteHold ELSE 0
StakeBlack(d, m) == IF m \in DOMAIN d.escrow THEN d.escrow[m].blackHold ELSE 0

\* the escrow row exists and holds something
Staked(d, m) == StakeWhite(d, m) # 0 \/ StakeBlack(d, m) # 0

\* a draw or abort settlement that refunds the white side only
ResolveRefundWhiteOnly(d, a) ==
    LET m == a.matchId
        d2 == IF a.whiteUserId # NoUser /\ StakeWhite(d, m) > 0
              THEN EnsureTx(d, a.whiteUserId, "refund", StakeWhite(d, m), a.lichessGameId)
              ELSE d
    IN  [d2 EXCEPT !.escrow[m].status = "refunded"]

\* resolveMatch, the writes when the result is D or abort
ResolveRefund(d, a) ==
    LET m == a.matchId
        d2 == IF a.whiteUserId # NoUser /\ StakeWhite(d, m) > 0
              THEN EnsureTx(d, a.whiteUserId, "refund", StakeWhite(d, m), a.lichessGameId)
              ELSE d
        d3 == IF a.blackUserId # NoUser /\ StakeBlack(d, m) > 0
              THEN EnsureTx(d2, a.blackUserId, "refund", StakeBlack(d, m), a.lichessGameId)
              ELSE d2
    IN  [d3 EXCEPT !.escrow[m].status = "refunded"]

\* a decisive settlement that does not hand the loser's stake to the winner
ResolveWinNoGain(d, a) ==
    LET m == a.matchId
        winner == a.winnerUserId
        winnerIsWhite == winner = a.whiteUserId
        winnerOwnStake == IF winnerIsWhite THEN StakeWhite(d, m) ELSE StakeBlack(d, m)
        loser == IF winnerIsWhite THEN a.blackUserId ELSE a.whiteUserId
        d2 == IF winnerOwnStake > 0
              THEN EnsureTx(d, winner, "refund", winnerOwnStake, a.lichessGameId)
              ELSE d
        d4 == IF loser # NoUser
              THEN EnsureTx(d2, loser, "stake_release", 0, a.lichessGameId)
              ELSE d2
    IN  [d4 EXCEPT !.escrow[m].status = "resolved"]

\* resolveMatch, the writes when the result is W and a winner is named
ResolveWin(d, a) ==
    LET m == a.matchId
        winner == a.winnerUserId
        winnerIsWhite == winner = a.whiteUserId
        winnerOwnStake == IF winnerIsWhite THEN StakeWhite(d, m) ELSE StakeBlack(d, m)
        loserStake == IF winnerIsWhite THEN StakeBlack(d, m) ELSE StakeWhite(d, m)
        loser == IF winnerIsWhite THEN a.blackUserId ELSE a.whiteUserId
        d2 == IF winnerOwnStake > 0
              THEN EnsureTx(d, winner, "refund", winnerOwnStake, a.lichessGameId)
              ELSE d
        d3 == IF loserStake > 0
              THEN EnsureTx(d2, winner, "gain", loserStake, a.lichessGameId)
              ELSE d2
        d4 == IF loser # NoUser
              THEN EnsureTx(d3, loser, "stake_release", 0, a.lichessGameId)
              ELSE d3
    IN  [d4 EXCEPT !.escrow[m].status = "resolved"]

\* the transaction throws and is rolled back: the unique game id, WINNER_REQUIRED
ResolveThrows(d, a) ==
    \/ GameIdTaken(d, a.matchId, a.lichessGameId)
    \/ Staked(d, a.matchId) /\ a.result = "W" /\ a.winnerUserId = NoUser

\* the transaction reaches an escrow.update
ResolveSettles(d, a) ==
    ~ResolveThrows(d, a) /\ Staked(d, a.matchId) /\ a.result \in {"D", "abort", "W"}

\* a commit that writes nothing for a wager without a stake
ResolveCommitSkipsUnstaked(d, a) ==
    LET m == a.matchId
        d1 == [d EXCEPT !.match[m].lichessGameId = a.lichessGameId,
                        !.match[m].result = a.result]
    IN  IF ResolveThrows(d, a) THEN d
        ELSE IF ~Staked(d, m) THEN d
        ELSE IF a.result \in {"D", "abort"} THEN ResolveRefund(d1, a)
        ELSE IF a.result = "W" THEN ResolveWin(d1, a)
        ELSE d1

\* a commit that keeps the match.update of a transaction that throws
ResolveCommitNoRollback(d, a) ==
    LET m == a.matchId
        d1 == [d EXCEPT !.match[m].lichessGameId = a.lichessGameId,
                        !.match[m].result = a.result]
    IN  IF ResolveThrows(d, a) THEN d1
        ELSE IF ~Staked(d, m) THEN d1
        ELSE IF a.result \in {"D", "abort"} THEN ResolveRefund(d1, a)
        ELSE IF a.result = "W" THEN ResolveWin(d1, a)
        ELSE d1

\* resolveMatch, the writes, for a transaction whose read found the match open
ResolveCommit(d, a) ==
    LET m == a.matchId
        d1 == [d EXCEPT !.match[m].lichessGameId = a.lichessGameId,
                        !.match[m].result = a.result]
    IN  IF ResolveThrows(d, a) THEN d
        ELSE IF ~Staked(d, m) THEN d1
        ELSE IF a.result \in {"D", "abort"} THEN ResolveRefund(d1, a)
        ELSE IF a.result = "W" THEN ResolveWin(d1, a)
        ELSE d1

\* holdStake and resolveMatch run alone, from the read to the commit
HoldStake(d, m, who, color, stake) ==
    IF stake <= 0 \/ ~HoldFunds(d, who, stake) THEN d
    ELSE HoldCommit(d, m, who, color, stake)

\* a resolveMatch that creates the match row it does not find
ResolveMatchCreates(d, a) ==
    IF a.matchId \notin DOMAIN d.match
    THEN [d EXCEPT !.match = Put(@, a.matchId,
             [MatchRow(0) EXCEPT !.lichessGameId = a.lichessGameId,
                                 !.result = a.result])]
    ELSE IF ResolveOpen(d, a.matchId) THEN ResolveCommit(d, a) ELSE d

\* a resolveMatch that pays the white side again when the match is closed
ResolveMatchRepays(d, a) ==
    IF ResolveOpen(d, a.matchId) THEN ResolveCommit(d, a)
    ELSE IF a.matchId \in DOMAIN d.escrow /\ a.whiteUserId # NoUser
    THEN [d EXCEPT !.balance[a.whiteUserId] = @ + StakeWhite(d, a.matchId)]
    ELSE d

ResolveMatch(d, a) == IF ResolveOpen(d, a.matchId) THEN ResolveCommit(d, a) ELSE d

\* what a holdStake call that runs alone throws ("none": it returns)
HoldStakeError(d, who, stake) ==
    IF stake > 0 /\ ~HoldFunds(d, who, stake) THEN "INSUFFICIENT_FUNDS" ELSE "none"

\* what a resolveMatch call that runs alone throws ("none": it returns)
ResolveMatchError(d, a) ==
    IF a.matchId \notin DOMAIN d.match THEN "MATCH_NOT_FOUND"
    ELSE IF d.match[a.matchId].result # NoResult THEN "none"
    ELSE IF GameIdTaken(d, a.matchId, a.lichessGameId) THEN "P2002"
    ELSE IF Staked(d, a.matchId) /\ a.result = "W" /\ a.winnerUserId = NoUser
    THEN "WINNER_REQUIRED"
    ELSE "none"

\* the two sides a caller may name: distinct accounts, or null
Sides ==
    {p \in (Users \cup {NoUser}) \X (Users \cup {NoUser}) :
        p[1] # p[2] \/ p[1] = NoUser}

\* the result and the winner a caller may name; winnerUserId is read only
\* when the result is W
Outcomes ==
    {<<"W", w>> : w \in Users \cup {NoUser}} \cup {<<r, NoUser>> : r \in Results \ {"W"}}

\* the arguments of a resolveMatch call on match m
ResolveArgs(m) ==
    {[matchId |-> m, lichessGameId |-> g, result |-> o[1], winnerUserId |-> o[2],
      whiteUserId |-> p[1], blackUserId |-> p[2]] :
        g \in GameRefs \cup {CancelRef(m)}, o \in Outcomes, p \in Sides}

(* ----------------------------- User rows ----------------------------- *)
\* the lichess accounts a user may link; NoLink is SQL NULL
LichessAccounts == {"la", "lb", "lc"}
NoLink == "NULL"
LinkValues == LichessAccounts \cup {NoLink}

\* the columns lichessId and lichessUsername of a User row
LinkRow(id, name) == [lichessId |-> id, lichessUsername |-> name]

\* the lichess account of each user of the server
LichessOf(u) == IF u = "a" THEN "la" ELSE "lb"

\* prevent_user_lichess_switch raises: a column that is not NULL gets a value
\* that IS DISTINCT FROM the old one (NULL is distinct from every value)
PreventSwitchRaises(old, new) ==
    \/ old.lichessId # NoLink /\ new.lichessId # old.lichessId
    \/ old.lichessUsername # NoLink /\ new.lichessUsername # old.lichessUsername

\* User_lichessId_key, User_lichessUsername_key: no other row may carry the
\* same value that is not NULL
LinkTaken(d, u, new) ==
    \E v \in DOMAIN d.user \ {u} :
        \/ new.lichessId # NoLink /\ d.user[v].lichessId = new.lichessId
        \/ new.lichessUsername # NoLink /\ d.user[v].lichessUsername = new.lichessUsername

\* what UPDATE "User" SET ... WHERE id = u fails with ("none": it is applied);
\* the BEFORE UPDATE trigger runs first
UpdateUserError(d, u, new) ==
    IF PreventSwitchRaises(d.user[u], new) THEN "23514"
    ELSE IF LinkTaken(d, u, new) THEN "23505"
    ELSE "none"

\* the database after the UPDATE
UpdateUser(d, u, new) ==
    IF UpdateUserError(d, u, new) = "none" THEN [d EXCEPT !.user[u] = new] ELSE d

(* ------------------------------- state -------------------------------- *)
Idle == [op |-> "idle"]

\* Every account signed up (balance 0), linked its lichess account and drew
\* the casual game 0 against the other one: a DrawReward gain each, and the
\* match row the first finish signal created.
Init ==
    /\ db = [balance |-> [u \in Users |-> DrawReward],
             ledger |-> {[userId |-> u, type |-> "gain", amount |-> DrawReward,
                          ref |-> GameRef(0)] : u \in Users},
             match |-> (0 :> [stakeCC |-> 0, lichessGameId |-> GameRef(0),
                              whiteId |-> "a", blackId |-> "b", result |-> "D"]),
             escrow |-> << >>,
             user |-> [u \in Users |-> LinkRow(LichessOf(u), LichessOf(u))]]
    /\ mmQueues = [k \in Stakes |-> << >>]
    /\ pendingStakeByUser = << >>
    /\ pendingChallenges = << >>
    /\ timers = << >>
    /\ calls = [c \in Calls |-> Idle]
    /\ settled = [m \in MatchIds |-> 0]
    /\ served = 0

NextMatchId == Cardinality(DOMAIN db.match)

memory == <<mmQueues, pendingStakeByUser, pendingChallenges, timers>>
\* a request, a stream event or a deadline is taken up
Serve == served < MaxServed /\ served' = served + 1

(* --------------------------- wallet callers --------------------------- *)
\* db.match.create({ data: { source: 'lichess', stakeCC: stake } })
CreateMatch(stake) ==
    /\ UNCHANGED served
    /\ NextMatchId <= WalletMatches
    /\ db' = [db EXCEPT !.match = Put(@, NextMatchId, MatchRow(stake))]
    /\ UNCHANGED <<memory, calls, settled>>

\* settled, after a resolveMatch commit with arguments a
Settle(d, a) ==
    IF /\ ResolveSettles(d, a)
       /\ \/ ResolveCommit(d, a).ledger # d.ledger
          \/ ResolveCommit(d, a).escrow # d.escrow
    THEN [settled EXCEPT ![a.matchId] = @ + 1]
    ELSE settled

\* a holdStake call that runs alone
HoldStakeCall(m, who, color, stake) ==
    /\ UNCHANGED served
    /\ stake > 0
    /\ StakeWhite(db, m) + StakeBlack(db, m) + stake <= MaxHolds * stake
    /\ db' = HoldStake(db, m, who, color, stake)
    /\ UNCHANGED <<memory, calls, settled>>

\* a resolveMatch call that runs alone
ResolveMatchCall(a) ==
    /\ UNCHANGED served
    /\ db' = ResolveMatch(db, a)
    /\ settled' = IF ResolveOpen(db, a.matchId) THEN Settle(db, a) ELSE settled
    /\ UNCHANGED <<memory, calls>>

WalletNext ==
    \/ \E stake \in Stakes : CreateMatch(stake)
    \/ \E m \in DOMAIN db.match, who \in Users, color \in Colors :
          HoldStakeCall(m, who, color, db.match[m].stakeCC)
    \/ \E m \in MatchIds : \E a \in ResolveArgs(m) : ResolveMatchCall(a)

WalletSpec == Init /\ [][WalletNext]_vars

(* ---------------------- concurrent transactions ----------------------- *)
HoldStakeRead(c, m, who, color, stake) ==
    /\ UNCHANGED served
    /\ calls[c] = Idle
    /\ stake > 0
    /\ StakeWhite(db, m) + StakeBlack(db, m) + stake <= MaxHolds * stake
    /\ calls' = IF HoldFunds(db, who, stake)
                THEN [calls EXCEPT ![c] = [op |-> "holdStake", matchId |-> m,
                          whoUserId |-> who, whoColor |-> color, stake |-> stake]]
                ELSE calls
    /\ UNCHANGED <<db, memory, settled>>

HoldStakeWrite(c) ==
    /\ UNCHANGED served
    /\ calls[c].op = "holdStake"
    /\ db' = HoldCommit(db, calls[c].matchId, calls[c].whoUserId,
                        calls[c].whoColor, calls[c].stake)
    /\ calls' = [calls EXCEPT ![c] = Idle]
    /\ UNCHANGED <<memory, settled>>

ResolveMatchRead(c, a) ==
    /\ UNCHANGED served
    /\ calls[c] = Idle
    /\ calls' = IF ResolveOpen(db, a.matchId)
                THEN [calls EXCEPT ![c] = [op |-> "resolveMatch", args |-> a]]
                ELSE calls
    /\ UNCHANGED <<db, memory, settled>>

ResolveMatchWrite(c) ==
    /\ UNCHANGED served
    /\ calls[c].op = "resolveMatch"
    /\ db' = ResolveCommit(db, calls[c].args)
    /\ settled' = Settle(db, calls[c].args)
    /\ calls' = [calls EXCEPT ![c] = Idle]
    /\ UNCHANGED memory

\* the callers of the server name "a" white and "b" black when they name sides
RaceArgs(m) == {a \in ResolveArgs(m) : a.whiteUserId = "a" /\ a.blackUserId = "b"}

RaceNext ==
    \/ \E stake \in Stakes : CreateMatch(stake)
    \/ \E c \in Calls, m \in DOMAIN db.match :
          \/ HoldStakeRead(c, m, "a", "white", db.match[m].stakeCC)
          \/ HoldStakeRead(c, m, "b", "black", db.match[m].stakeCC)
    \/ \E c \in Calls : HoldStakeWrite(c)
    \/ \E c \in Calls, m \in MatchIds : \E a \in RaceArgs(m) : ResolveMatchRead(c, a)
    \/ \E c \in Calls : ResolveMatchWrite(c)

RaceSpec == Init /\ [][RaceNext]_vars

(* ------------------------------- server ------------------------------- *)
\* the lowest free call slot
Free(c) == calls[c] = Idle /\ \A x \in Calls : x < c => calls[x] # Idle

Done(c) == [calls EXCEPT ![c] = Idle]

NewMatch(d, stake) == [d EXCEPT !.match = Put(@, Cardinality(DOMAIN d.match), MatchRow(stake))]

\* clearTimeout: a timer that has not fired will not fire
ClearTimeout(t, m) ==
    IF m \in DOMAIN t /\ t[m].state = "armed" THEN [t EXCEPT ![m].state = "cleared"] ELSE t

\* a cancellation that names no side
CancelArgsNoSides(m, a, b) ==
    [matchId |-> m, lichessGameId |-> CancelRef(m), result |-> "abort",
     winnerUserId |-> NoUser, whiteUserId |-> NoUser, blackUserId |-> NoUser]

\* the arguments of the cancellation both timers and the failed queue
\* invitation pass to resolveMatch
CancelArgs(m, a, b) ==
    [matchId |-> m, lichessGameId |-> CancelRef(m), result |-> "abort",
     winnerUserId |-> NoUser, whiteUserId |-> a, blackUserId |-> b]

(* POST /play/staked *)
\* match.create, then holdStake reads the balance
PlayStakedBegin(c, u, stake) ==
    /\ Serve
    /\ Free(c)
    /\ NextMatchId <= MaxMatches
    /\ db' = NewMatch(db, stake)
    /\ calls' = IF HoldFunds(db, u, stake)
                THEN [calls EXCEPT ![c] = [op |-> "playStaked", pc |-> "hold", userId |-> u,
                                           matchId |-> NextMatchId, stake |-> stake]]
                ELSE calls
    /\ UNCHANGED <<memory, settled>>

\* holdStake commits; pendingStakeByUser.set; createSeek changes nothing here,
\* whether it succeeds or throws
PlayStakedHold(c) ==
    /\ UNCHANGED served
    /\ calls[c].op = "playStaked"
    /\ db' = HoldCommit(db, calls[c].matchId, calls[c].userId, "white", calls[c].stake)
    /\ pendingStakeByUser' = Put(pendingStakeByUser, calls[c].userId, calls[c].matchId)
    /\ calls' = Done(c)
    /\ UNCHANGED <<mmQueues, pendingChallenges, timers, settled>>

(* POST /play/staked/challenge *)
ChallengeBegin(c, u, opp, stake) ==
    /\ Serve
    /\ Free(c)
    /\ opp # u
    /\ NextMatchId <= MaxMatches
    /\ db' = NewMatch(db, stake)
    /\ calls' = IF HoldFunds(db, u, stake)
                THEN [calls EXCEPT ![c] = [op |-> "challenge", pc |-> "hold", userId |-> u,
                          opp |-> opp, matchId |-> NextMatchId, stake |-> stake]]
                ELSE calls
    /\ UNCHANGED <<memory, settled>>

ChallengeHold(c) ==
    /\ UNCHANGED served
    /\ calls[c].op = "challenge" /\ calls[c].pc = "hold"
    /\ db' = HoldCommit(db, calls[c].matchId, calls[c].userId, "white", calls[c].stake)
    /\ pendingStakeByUser' =
           Put(Put(pendingStakeByUser, calls[c].userId, calls[c].matchId),
               calls[c].opp, calls[c].matchId)
    /\ calls' = [calls EXCEPT ![c].pc = "invite"]
    /\ UNCHANGED <<mmQueues, pendingChallenges, timers, settled>>

\* the answer of POST /api/challenge/{opponent}: !r.ok returns 500 and does
\* nothing else; otherwise setTimeout and pendingChallenges.set
ChallengeInvite(c, ok) ==
    /\ UNCHANGED served
    /\ calls[c].op = "challenge" /\ calls[c].pc = "invite"
    /\ IF ok
       THEN /\ timers' = Put(timers, calls[c].matchId,
                   [state |-> "armed", kind |-> "challenge",
                    a |-> calls[c].userId, b |-> calls[c].opp])
            /\ pendingChallenges' = Put(pendingChallenges, calls[c].matchId,
                   [aUserId |-> calls[c].userId, bUserId |-> calls[c].opp,
                    started |-> FALSE])
       ELSE UNCHANGED <<timers, pendingChallenges>>
    /\ calls' = Done(c)
    /\ UNCHANGED <<db, mmQueues, pendingStakeByUser, settled>>

(* POST /queue/join; the key is the stake (time, increment, rated at their defaults) *)
\* a join that never finds the account in the queue
InQueueNever(q, u) == FALSE

InQueue(q, u) == \E i \in 1..Len(q) : q[i] = u

\* the synchronous part: dedupe, push, pair the two oldest; then match.create
\* and the balance read of holdStake for a
QueueJoin(c, u, stake) ==
    /\ Serve
    /\ Free(c)
    /\ LET q == Append(mmQueues[stake], u) IN
       IF InQueue(mmQueues[stake], u)
       THEN UNCHANGED <<db, mmQueues, calls>>
       ELSE IF Len(q) < 2
       THEN /\ mmQueues' = [mmQueues EXCEPT ![stake] = q]
            /\ UNCHANGED <<db, calls>>
       ELSE /\ NextMatchId <= MaxMatches
            /\ mmQueues' = [mmQueues EXCEPT ![stake] = SubSeq(q, 3, Len(q))]
            /\ db' = NewMatch(db, stake)
            /\ calls' = IF HoldFunds(db, q[1], stake)
                        THEN [calls EXCEPT ![c] = [op |-> "join", pc |-> "holdA",
                                  a |-> q[1], b |-> q[2], matchId |-> NextMatchId,
                                  stake |-> stake, open |-> TRUE]]
                        ELSE calls
    /\ UNCHANGED <<pendingStakeByUser, pendingChallenges, timers, settled>>

JoinHoldA(c) ==
    /\ UNCHANGED served
    /\ calls[c].op = "join" /\ calls[c].pc = "holdA"
    /\ db' = HoldCommit(db, calls[c].matchId, calls[c].a, "white", calls[c].stake)
    /\ calls' = [calls EXCEPT ![c].pc = "checkB"]
    /\ UNCHANGED <<memory, settled>>

\* holdStake for b reads the balance: INSUFFICIENT_FUNDS ends the request
JoinCheckB(c) ==
    /\ UNCHANGED served
    /\ calls[c].op = "join" /\ calls[c].pc = "checkB"
    /\ calls' = IF HoldFunds(db, calls[c].b, calls[c].stake)
                THEN [calls EXCEPT ![c].pc = "holdB"]
                ELSE Done(c)
    /\ UNCHANGED <<db, memory, settled>>

JoinHoldB(c) ==
    /\ UNCHANGED served
    /\ calls[c].op = "join" /\ calls[c].pc = "holdB"
    /\ db' = HoldCommit(db, calls[c].matchId, calls[c].b, "black", calls[c].stake)
    /\ pendingStakeByUser' =
           Put(Put(pendingStakeByUser, calls[c].a, calls[c].matchId),
               calls[c].b, calls[c].matchId)
    /\ calls' = [calls EXCEPT ![c].pc = "invite"]
    /\ UNCHANGED <<mmQueues, pendingChallenges, timers, settled>>

\* the answer of the invitation: !r.ok starts resolveMatch(abort), whose read
\* finds the match open or not; otherwise setTimeout and pendingChallenges.set
JoinInvite(c, ok) ==
    /\ UNCHANGED served
    /\ calls[c].op = "join" /\ calls[c].pc = "invite"
    /\ IF ok
       THEN /\ timers' = Put(timers, calls[c].matchId,
                   [state |-> "armed", kind |-> "queue", a |-> calls[c].a, b |-> calls[c].b])
            /\ pendingChallenges' = Put(pendingChallenges, calls[c].matchId,
                   [aUserId |-> calls[c].a, bUserId |-> calls[c].b, started |-> FALSE])
            /\ calls' = Done(c)
       ELSE /\ calls' = [calls EXCEPT ![c].pc = "refund",
                                      ![c].open = ResolveOpen(db, calls[c].matchId)]
            /\ UNCHANGED <<timers, pendingChallenges>>
    /\ UNCHANGED <<db, mmQueues, pendingStakeByUser, settled>>

\* resolveMatch commits (or had returned at its read); a throw skips the deletes
JoinRefund(c) ==
    /\ UNCHANGED served
    /\ calls[c].op = "join" /\ calls[c].pc = "refund"
    /\ LET args == CancelArgs(calls[c].matchId, calls[c].a, calls[c].b)
           run == calls[c].open
       IN  /\ db' = IF run THEN ResolveCommit(db, args) ELSE db
           /\ settled' = IF run THEN Settle(db, args) ELSE settled
           /\ pendingStakeByUser' =
                  IF run /\ ResolveThrows(db, args) THEN pendingStakeByUser
                  ELSE Drop(Drop(pendingStakeByUser, calls[c].a), calls[c].b)
    /\ calls' = Done(c)
    /\ UNCHANGED <<mmQueues, pendingChallenges, timers>>

(* POST /queue/leave *)
\* a leave that takes no ticket out
RemoveFirstNone(q, u) == q

\* a leave that empties the queue
RemoveFirstAll(q, u) == << >>

RemoveFirst(q, u) ==
    IF InQueue(q, u)
    THEN LET i == CHOOSE j \in 1..Len(q) : q[j] = u /\ \A k \in 1..(j - 1) : q[k] # u
         IN  SubSeq(q, 1, i - 1) \o SubSeq(q, i + 1, Len(q))
    ELSE q

QueueLeave(u) ==
    /\ Serve
    /\ mmQueues' = [k \in Stakes |-> RemoveFirst(mmQueues[k], u)]
    /\ UNCHANGED <<db, pendingStakeByUser, pendingChallenges, timers, calls, settled>>

(* stream callback, gameStart *)
\* pendingStakeByUser.get, then match.update (a taken game id throws and is caught)
StartBegin(c, u, g) ==
    /\ Serve
    /\ Free(c)
    /\ IF u \in DOMAIN pendingStakeByUser
          /\ ~GameIdTaken(db, pendingStakeByUser[u], GameRef(g))
       THEN /\ db' = [db EXCEPT !.match[pendingStakeByUser[u]].lichessGameId = GameRef(g)]
            /\ calls' = [calls EXCEPT ![c] =
                   [op |-> "start", pc |-> "linked", matchId |-> pendingStakeByUser[u]]]
       ELSE UNCHANGED <<db, calls>>
    /\ UNCHANGED <<memory, settled>>

\* after the await: pend.started = true; clearTimeout(pend.timeout)
StartLinked(c) ==
    /\ UNCHANGED served
    /\ calls[c].op = "start"
    /\ IF calls[c].matchId \in DOMAIN pendingChallenges
       THEN /\ pendingChallenges' = [pendingChallenges EXCEPT ![calls[c].matchId].started = TRUE]
            /\ timers' = ClearTimeout(timers, calls[c].matchId)
       ELSE UNCHANGED <<pendingChallenges, timers>>
    /\ calls' = Done(c)
    /\ UNCHANGED <<db, mmQueues, pendingStakeByUser, settled>>

(* stream callback, gameFinish *)
\* what fetchGameSummary may answer: the players are accounts or unknown
Summaries ==
    {[status |-> o[1], winner |-> o[2], white |-> p[1], black |-> p[2]] :
        o \in {<<"draw", "none">>, <<"mate", "white">>, <<"mate", "black">>,
               <<"aborted", "none">>},
        p \in Sides}

IsWhite(u, sum) ==
    IF sum.white = u THEN "true" ELSE IF sum.black = u THEN "false" ELSE "undefined"

Won(u, sum) ==
    \/ sum.winner = "white" /\ IsWhite(u, sum) = "true"
    \/ sum.winner = "black" /\ IsWhite(u, sum) = "false"

FinishResult(u, sum) ==
    IF sum.status = "draw" THEN "D"
    ELSE IF sum.winner # "none" /\ IsWhite(u, sum) # "undefined"
    THEN (IF Won(u, sum) THEN "W" ELSE "L")
    ELSE NoResult

Opponent(u, sum) ==
    IF IsWhite(u, sum) = "true" THEN sum.black
    ELSE IF IsWhite(u, sum) = "false" THEN sum.white
    ELSE NoUser

\* a reward that is the same whatever the outcome
DeltaFlat(u, sum) == OtherReward

Delta(u, sum) ==
    IF sum.status = "draw" THEN DrawReward
    ELSE IF sum.winner = "none" THEN OtherReward
    ELSE IF Won(u, sum) THEN WinReward ELSE OtherReward

\* db.match.upsert({ where: { lichessGameId }, update: { result }, create: ... })
MatchOf(d, gid) ==
    IF \E x \in DOMAIN d.match : d.match[x].lichessGameId = gid
    THEN CHOOSE x \in DOMAIN d.match : d.match[x].lichessGameId = gid
    ELSE Cardinality(DOMAIN d.match)

Upsert(d, u, g, sum) ==
    LET m == MatchOf(d, GameRef(g))
        result == FinishResult(u, sum)
        opp == Opponent(u, sum)
    IN  IF m \in DOMAIN d.match
        THEN (IF result # NoResult THEN [d EXCEPT !.match[m].result = result] ELSE d)
        ELSE [d EXCEPT !.match = Put(@, m,
                 [stakeCC |-> 0, lichessGameId |-> GameRef(g),
                  whiteId |-> IF IsWhite(u, sum) = "true" THEN u
                              ELSE IF IsWhite(u, sum) = "false" THEN opp ELSE NoUser,
                  blackId |-> IF IsWhite(u, sum) = "false" THEN u
                              ELSE IF IsWhite(u, sum) = "true" THEN opp ELSE NoUser,
                  result |-> result])]

\* a reward written with no unique index on (userId, type, ref)
CasualRewardNoIndex(d, u, delta, gid) ==
    [d EXCEPT !.balance[u] = @ + delta,
              !.ledger = @ \cup {[userId |-> u, type |-> "gain",
                                  amount |-> delta, ref |-> gid]}]

\* $transaction([balance.update, txLedger.create]): the unique index on
\* (userId, type, ref) rejects a second entry and the batch is rolled back
CasualReward(d, u, delta, gid) ==
    IF HasTx(d, u, "gain", gid) THEN d
    ELSE [d EXCEPT !.balance[u] = @ + delta,
                   !.ledger = @ \cup {[userId |-> u, type |-> "gain",
                                       amount |-> delta, ref |-> gid]}]

\* the arguments the finish handler passes to resolveMatch for row m
FinishArgs(d, m, u, g, sum) ==
    LET row == d.match[m]
        result == FinishResult(u, sum)
        winner == IF result # "W" THEN NoUser
                  ELSE IF IsWhite(u, sum) = "true"
                  THEN (IF row.whiteId # NoUser THEN row.whiteId ELSE u)
                  ELSE (IF row.blackId # NoUser THEN row.blackId ELSE u)
    IN  [matchId |-> m, lichessGameId |-> GameRef(g),
         result |-> IF result = NoResult THEN "abort" ELSE result,
         winnerUserId |-> winner, whiteUserId |-> row.whiteId, blackUserId |-> row.blackId]

\* the summary is fetched, the match upserted; a staked match goes on to
\* resolveMatch (its read happens here), a casual one is rewarded
FinishBegin(c, u, g, sum) ==
    /\ Serve
    /\ Free(c)
    /\ LET m == MatchOf(db, GameRef(g))
           d1 == Upsert(db, u, g, sum)
       IN  /\ m <= MaxMatches
           /\ IF d1.match[m].stakeCC > 0
              THEN /\ db' = d1
                   /\ calls' = [calls EXCEPT ![c] =
                          [op |-> "finish", pc |-> "resolve", userId |-> u,
                           opp |-> Opponent(u, sum),
                           args |-> FinishArgs(d1, m, u, g, sum),
                           open |-> ResolveOpen(d1, m)]]
              ELSE /\ db' = CasualReward(d1, u, Delta(u, sum), GameRef(g))
                   /\ UNCHANGED calls
    /\ UNCHANGED <<memory, settled>>

\* resolveMatch commits (or had returned at its read), then the pendings are
\* cleaned; a throw is caught and skips the cleaning
FinishResolve(c) ==
    /\ UNCHANGED served
    /\ calls[c].op = "finish"
    /\ LET args == calls[c].args
           m == args.matchId
           run == calls[c].open
           threw == run /\ ResolveThrows(db, args)
       IN  /\ db' = IF run THEN ResolveCommit(db, args) ELSE db
           /\ settled' = IF run THEN Settle(db, args) ELSE settled
           /\ IF threw
              THEN UNCHANGED <<pendingChallenges, timers, pendingStakeByUser>>
              ELSE /\ pendingChallenges' = Drop(pendingChallenges, m)
                   /\ timers' = IF m \in DOMAIN pendingChallenges
                                THEN ClearTimeout(timers, m) ELSE timers
                   /\ pendingStakeByUser' =
                          Drop(Drop(pendingStakeByUser, calls[c].userId), calls[c].opp)
    /\ calls' = Done(c)
    /\ UNCHANGED mmQueues

(* the setTimeout callbacks of the challenge and of the queue pair *)
\* the deadline passes: const m = await db.match.findUnique(...)
TimerFire(c, m) ==
    /\ Serve
    /\ Free(c)
    /\ m \in DOMAIN timers /\ timers[m].state = "armed"
    /\ timers' = [timers EXCEPT ![m].state = "fired"]
    /\ calls' = [calls EXCEPT ![c] =
           [op |-> "timeout", pc |-> "check", matchId |-> m,
            linked |-> db.match[m].lichessGameId # NoRef, open |-> TRUE]]
    /\ UNCHANGED <<db, mmQueues, pendingStakeByUser, pendingChallenges, settled>>

Started(m) == m \in DOMAIN pendingChallenges /\ pendingChallenges[m].started

\* if (!m?.lichessGameId && !pendingChallenges.get(id)?.started): the queue
\* timer tests the first half only; then resolveMatch reads the match
TimerCheck(c) ==
    /\ UNCHANGED served
    /\ calls[c].op = "timeout" /\ calls[c].pc = "check"
    /\ calls' = IF /\ ~calls[c].linked
                   /\ timers[calls[c].matchId].kind = "queue" \/ ~Started(calls[c].matchId)
                THEN [calls EXCEPT ![c].pc = "cancel",
                                   ![c].open = ResolveOpen(db, calls[c].matchId)]
                ELSE Done(c)
    /\ UNCHANGED <<db, memory, settled>>

TimerCancel(c) ==
    /\ UNCHANGED served
    /\ calls[c].op = "timeout" /\ calls[c].pc = "cancel"
    /\ LET m == calls[c].matchId
           t == timers[m]
           args == CancelArgs(m, t.a, t.b)
           run == calls[c].open
           threw == run /\ ResolveThrows(db, args)
       IN  /\ db' = IF run THEN ResolveCommit(db, args) ELSE db
           /\ settled' = IF run THEN Settle(db, args) ELSE settled
           /\ pendingStakeByUser' =
                  IF threw THEN pendingStakeByUser
                  ELSE Drop(Drop(pendingStakeByUser, t.a), t.b)
           /\ pendingChallenges' =
                  IF threw \/ t.kind = "queue" THEN pendingChallenges
                  ELSE Drop(pendingChallenges, m)
    /\ calls' = Done(c)
    /\ UNCHANGED <<mmQueues, timers>>

Next ==
    \/ \E c \in Calls, u \in Users, stake \in Stakes : PlayStakedBegin(c, u, stake)
    \/ \E c \in Calls : PlayStakedHold(c)
    \/ \E c \in Calls, u \in Users, opp \in Users, stake \in Stakes :
          ChallengeBegin(c, u, opp, stake)
    \/ \E c \in Calls : ChallengeHold(c)
    \/ \E c \in Calls, ok \in BOOLEAN : ChallengeInvite(c, ok)
    \/ \E c \in Calls, u \in Users, stake \in Stakes : QueueJoin(c, u, stake)
    \/ \E c \in Calls : JoinHoldA(c)
    \/ \E c \in Calls : JoinCheckB(c)
    \/ \E c \in Calls : JoinHoldB(c)
    \/ \E c \in Calls, ok \in BOOLEAN : JoinInvite(c, ok)
    \/ \E c \in Calls : JoinRefund(c)
    \/ \E u \in Users : QueueLeave(u)
    \/ \E c \in Calls, u \in Users, g \in Games : StartBegin(c, u, g)
    \/ \E c \in Calls : StartLinked(c)
    \/ \E c \in Calls, u \in Users, g \in Games : \E sum \in Summaries :
          FinishBegin(c, u, g, sum)
    \/ \E c \in Calls : FinishResolve(c)
    \/ \E c \in Calls, m \in MatchIds : TimerFire(c, m)
    \/ \E c \in Calls : TimerCheck(c)
    \/ \E c \in Calls : TimerCancel(c)

Spec == Init /\ [][Next]_vars

(* ---------------------------- lichess link ---------------------------- *)
\* the accounts have signed up and none has linked a lichess account
LinkInit ==
    /\ db = [balance |-> [u \in Users |-> 0], ledger |-> {}, match |-> << >>,
             escrow |-> << >>,
             user |-> [u \in Users |-> LinkRow(NoLink, NoLink)]]
    /\ mmQueues = [k \in Stakes |-> << >>]
    /\ pendingStakeByUser = << >>
    /\ pendingChallenges = << >>
    /\ timers = << >>
    /\ calls = [c \in Calls |-> Idle]
    /\ settled = [m \in MatchIds |-> 0]
    /\ served = 0

\* GET /lichess/callback for user u, the profile fetched being account acc:
\* refused when another user carries the account, else db.user.update
LichessCallback(u, acc) ==
    /\ db' = IF \E v \in Users \ {u} : db.user[v].lichessId = acc
             THEN db
             ELSE UpdateUser(db, u, LinkRow(acc, acc))
    /\ UNCHANGED <<memory, calls, served, settled>>

\* any other UPDATE of the two columns of the row of user u; the unlink sets
\* both to NULL
SqlUpdate(u, id, name) ==
    /\ db' = UpdateUser(db, u, LinkRow(id, name))
    /\ UNCHANGED <<memory, calls, served, settled>>

LinkNext ==
    \/ \E u \in Users, acc \in LichessAccounts : LichessCallback(u, acc)
    \/ \E u \in Users, id \in LinkValues, name \in LinkValues : SqlUpdate(u, id, name)

LinkSpec == LinkInit /\ [][LinkNext]_vars

(* ------------------------------- claims ------------------------------- *)
HeldEscrows(d) == {m \in DOMAIN d.escrow : d.escrow[m].status = "held"}

\* sum(all balances) + sum(all currently held escrow)
Total(d) ==
    SumOver(Users, d.balance)
    + SumOver(HeldEscrows(d), [m \in HeldEscrows(d) |->
                                  d.escrow[m].whiteHold + d.escrow[m].blackHold])

InitialTotal == Cardinality(Users) * DrawReward

\* C1 (conservation): after any sequence of holdStake and resolveMatch calls
\* the balances plus the stakes of the escrows still held add up to the
\* initial total.
C1_Conservation == Total(db) = InitialTotal

\* a call of the given kind is in flight on match m
InFlight(op, m) ==
    \E c \in Calls : calls[c].op = op /\
        (IF op = "finish" THEN calls[c].args.matchId ELSE calls[c].matchId) = m

\* C2 (end-to-end settlement): a staked wager linked to a game by a start
\* signal, for which a finish signal with a win, loss or draw result has been
\* processed, has its escrow settled: the status has left 'held'.
C2_FinishSettles ==
    \A m \in DOMAIN db.match :
        ( /\ db.match[m].stakeCC > 0
          /\ db.match[m].lichessGameId \in GameRefs
          /\ db.match[m].result \in {"W", "L", "D"}
          /\ Staked(db, m)
          /\ ~InFlight("finish", m) )
        => db.escrow[m].status # "held"

\* C3 (exactly-one settlement): whatever resolveMatch calls run concurrently
\* on one wager, at most one of them produces ledger entries or changes the
\* escrow row.
C3_SettledOnce == \A m \in MatchIds : settled[m] <= 1

\* C6 (no negative balance): every balance is >= 0 in every reachable state,
\* concurrent holdStake calls against one account included.
C6_NoNegativeBalance == \A u \in Users : db.balance[u] >= 0

\* C4 (idempotence of resolve): from every reachable state and for every
\* argument tuple, a second resolveMatch call with the arguments of the first
\* leaves balances, ledger, escrow and match rows as the first call left them.
C4_ResolveIdempotent ==
    \A m \in MatchIds : \A a \in ResolveArgs(m) :
        ResolveMatch(ResolveMatch(db, a), a) = ResolveMatch(db, a)

\* a first call has settled a staked wager, and repeating it changes nothing
C4_Witness ==
    \E m \in DOMAIN db.escrow : \E a \in ResolveArgs(m) :
        /\ db.escrow[m].status = "resolved"
        /\ a.result = db.match[m].result
        /\ a.lichessGameId = db.match[m].lichessGameId
        /\ HasTx(db, a.winnerUserId, "refund", a.lichessGameId)
        /\ ResolveMatch(db, a) = db

\* the database after the finish handler has run alone on one signal
FinishDb(d, u, g, sum) ==
    LET m == MatchOf(d, GameRef(g))
        d1 == Upsert(d, u, g, sum)
    IN  IF d1.match[m].stakeCC > 0
        THEN ResolveMatch(d1, FinishArgs(d1, m, u, g, sum))
        ELSE CasualReward(d1, u, Delta(u, sum), GameRef(g))

\* C5 (duplicate finish delivery): from every reachable state, a finish
\* signal processed a second time with the same payload leaves the number of
\* ledger entries and every balance as the first delivery left them.
C5_DuplicateFinish ==
    \A u \in Users, g \in Games : \A sum \in Summaries :
        LET d1 == FinishDb(db, u, g, sum)
            d2 == FinishDb(d1, u, g, sum)
        IN  /\ Cardinality(d2.ledger) = Cardinality(d1.ledger)
            /\ d2.balance = d1.balance

\* a casual game has been rewarded, a staked wager is held, and a finish
\* signal is about to be handled
C5_Witness ==
    /\ \E u \in Users, g \in Games : HasTx(db, u, "gain", GameRef(g))
    /\ \E m \in DOMAIN db.match : db.match[m].stakeCC > 0 /\ Staked(db, m)
    /\ \E u \in Users, g \in Games : \E sum \in Summaries :
           FinishDb(db, u, g, sum) # db

\* the accounts whose stake holdStake debited for match m, with the amount
HeldFor(d, m) == {e \in d.ledger : e.type = "stake_hold" /\ e.ref = MatchRef(m)}

\* what the ledger gives account u when the entries with a ref in skip are
\* left out: with skip = the hold and the cancellation of m, the balance of u
\* had m never been staked on
Credited(d, u, skip) ==
    LET es == {e \in d.ledger : e.userId = u /\ e.ref \notin skip}
    IN  SumOver(es, [e \in es |-> e.amount])

\* the deadline timer of m has run to its end and no start signal linked m
TimedOut(m) ==
    /\ m \in DOMAIN timers /\ timers[m].state = "fired"
    /\ ~InFlight("timeout", m)
    /\ db.match[m].lichessGameId \notin GameRefs

\* C7 (timeout refund): when the deadline timer of a challenge or queue pair
\* has run and no start signal linked the wager, the wager's outcome is
\* 'abort', its escrow is 'refunded', and every account whose stake was held
\* for it has been credited a refund of the amount held, its balance being
\* what it is without the hold.
C7_TimeoutRefund ==
    \A m \in DOMAIN db.match :
        TimedOut(m) =>
            /\ db.match[m].result = "abort"
            /\ db.escrow[m].status = "refunded"
            /\ \A e \in HeldFor(db, m) :
                   /\ [userId |-> e.userId, type |-> "refund", amount |-> 0 - e.amount,
                       ref |-> CancelRef(m)] \in db.ledger
                   /\ db.balance[e.userId] = Credited(db, e.userId, {MatchRef(m), CancelRef(m)})

\* a queue pair timed out: both accounts held a stake and got it back
C7_Witness ==
    \E m \in DOMAIN db.match :
        /\ TimedOut(m)
        /\ timers[m].kind = "queue"
        /\ Cardinality(HeldFor(db, m)) = 2
        /\ \A u \in Users : db.balance[u] = DrawReward

\* C8 (timeout versus start race): a timer callback that ends after a start
\* signal has attached a game id to its wager leaves the database as it is:
\* no abort, no refund, the game id stays.
C8_TimerLeavesLinked ==
    [][\A c \in Calls :
          ( /\ calls[c].op = "timeout"
            /\ calls'[c] = Idle
            /\ db.match[calls[c].matchId].lichessGameId \in GameRefs )
          => db' = db]_vars

\* C9 (failed direct-challenge invitation): the step that ends a challenge
\* request whose invitation failed (no timer is armed) refunds the challenger,
\* makes the wager terminal and leaves no registry entry for it.
C9_FailedInviteRefunds ==
    [][\A c \in Calls :
          ( /\ calls[c].op = "challenge" /\ calls[c].pc = "invite"
            /\ calls'[c] = Idle
            /\ calls[c].matchId \notin DOMAIN timers' )
          => /\ db'.balance[calls[c].userId] = db.balance[calls[c].userId] + calls[c].stake
             /\ db'.match[calls[c].matchId].result # NoResult
             /\ calls[c].matchId \notin DOMAIN pendingChallenges'
             /\ \A u \in DOMAIN pendingStakeByUser' :
                    pendingStakeByUser'[u] # calls[c].matchId]_vars

\* accounts A and B each had stake s held for the open match m
BothHeld(d, m, A, B, s) ==
    /\ A # B /\ s > 0
    /\ ResolveOpen(d, m)
    /\ m \in DOMAIN d.escrow
    /\ d.escrow[m] = [whiteHold |-> s, blackHold |-> s, status |-> "held"]
    /\ HeldFor(d, m) = {[userId |-> u, type |-> "stake_hold", amount |-> 0 - s,
                         ref |-> MatchRef(m)] : u \in {A, B}}

\* the decisive payout: A is up s and B down s on their balances before the
\* holds, the escrow is resolved, the entries keyed by the game id are the three
Payout(d0, d, a, m, A, B, s) ==
    /\ d.balance[A] = (d0.balance[A] + s) + s
    /\ d.balance[B] = (d0.balance[B] + s) - s
    /\ d.escrow[m].status = "resolved"
    /\ {e \in d.ledger : e.ref = a.lichessGameId} =
           {[userId |-> A, type |-> "gain", amount |-> s, ref |-> a.lichessGameId],
            [userId |-> A, type |-> "refund", amount |-> s, ref |-> a.lichessGameId],
            [userId |-> B, type |-> "stake_release", amount |-> 0,
             ref |-> a.lichessGameId]}

\* the side arguments name the loser B as the side the winner A is not on
LoserNamed(a, A, B) ==
    (IF a.whiteUserId = A THEN a.blackUserId ELSE a.whiteUserId) = B

\* C10 as stated (decisive payout): whenever A and B each had stake s held and
\* resolveMatch is called with result W and winner A under a free external
\* game id, whatever the side arguments, A ends s above and B s below their
\* pre-hold balances, the escrow is resolved and the ledger holds for the game
\* id exactly gain s for A, refund s for A and stake_release 0 for B.
C10_DecisivePayout ==
    \A m \in DOMAIN db.match : \A A \in Users, B \in Users, s \in Stakes :
        \A a \in ResolveArgs(m) :
            ( /\ BothHeld(db, m, A, B, s)
              /\ a.result = "W" /\ a.winnerUserId = A
              /\ a.lichessGameId \in GameRefs
              /\ ~GameIdTaken(db, m, a.lichessGameId) )
            => Payout(db, ResolveMatch(db, a), a, m, A, B, s)

\* C10 (decisive payout, with the loser named): the same, for the calls whose
\* side arguments name B as the side opposite to the winner A (blackUserId = B
\* when whiteUserId = A, whiteUserId = B otherwise).
C10_DecisivePayoutLoserNamed ==
    \A m \in DOMAIN db.match : \A A \in Users, B \in Users, s \in Stakes :
        \A a \in ResolveArgs(m) :
            ( /\ BothHeld(db, m, A, B, s)
              /\ a.result = "W" /\ a.winnerUserId = A
              /\ LoserNamed(a, A, B)
              /\ a.lichessGameId \in GameRefs
              /\ ~GameIdTaken(db, m, a.lichessGameId) )
            => Payout(db, ResolveMatch(db, a), a, m, A, B, s)

\* a match both accounts staked on has been resolved for a winner: the three
\* entries are in the ledger and the stake has changed hands
C10_Witness ==
    \E m \in DOMAIN db.match : \E A \in Users, B \in Users, s \in Stakes :
        /\ A # B
        /\ db.match[m].result = "W" /\ db.match[m].lichessGameId \in GameRefs
        /\ m \in DOMAIN db.escrow
        /\ db.escrow[m] = [whiteHold |-> s, blackHold |-> s, status |-> "resolved"]
        /\ {e \in db.ledger : e.ref = db.match[m].lichessGameId} =
               {[userId |-> A, type |-> "gain", amount |-> s,
                 ref |-> db.match[m].lichessGameId],
                [userId |-> A, type |-> "refund", amount |-> s,
                 ref |-> db.match[m].lichessGameId],
                [userId |-> B, type |-> "stake_release", amount |-> 0,
                 ref |-> db.match[m].lichessGameId]}
        /\ db.balance[A] = DrawReward + s /\ db.balance[B] = DrawReward - s

\* the draw or abort payout: A and B are back on their balances before the
\* holds, the escrow is refunded, the entries keyed by the ref are two refunds
Refunded(d0, d, a, m, A, B, s) ==
    /\ d.balance[A] = d0.balance[A] + s
    /\ d.balance[B] = d0.balance[B] + s
    /\ d.escrow[m].status = "refunded"
    /\ {e \in d.ledger : e.ref = a.lichessGameId} =
           {[userId |-> u, type |-> "refund", amount |-> s, ref |-> a.lichessGameId] :
               u \in {A, B}}

\* C11 (draw/abort payout): whenever A and B each had stake s held for a wager
\* and resolveMatch is called with result D or abort, naming A and B as the
\* two sides (in either order) under a ref no other match carries, both
\* balances are back at their pre-hold values, the escrow is 'refunded' and
\* the ledger holds for the ref exactly two refund entries of s, one per side.
C11_DrawAbortPayout ==
    \A m \in DOMAIN db.match : \A A \in Users, B \in Users, s \in Stakes :
        \A a \in ResolveArgs(m) :
            ( /\ BothHeld(db, m, A, B, s)
              /\ a.result \in {"D", "abort"}
              /\ {a.whiteUserId, a.blackUserId} = {A, B}
              /\ ~GameIdTaken(db, m, a.lichessGameId) )
            => Refunded(db, ResolveMatch(db, a), a, m, A, B, s)

\* a wager both accounts staked on has been settled as a draw: two refunds in
\* the ledger, both balances where they were before the holds
C11_Witness ==
    \E m \in DOMAIN db.match : \E s \in Stakes :
        /\ db.match[m].result = "D"
        /\ m \in DOMAIN db.escrow
        /\ db.escrow[m] = [whiteHold |-> s, blackHold |-> s, status |-> "refunded"]
        /\ Cardinality(HeldFor(db, m)) = 2
        /\ {e \in db.ledger : e.ref = db.match[m].lichessGameId} =
               {[userId |-> u, type |-> "refund", amount |-> s,
                 ref |-> db.match[m].lichessGameId] : u \in Users}
        /\ \A u \in Users : db.balance[u] = DrawReward

\* the idempotency key of a ledger entry
TxKey(e) == <<e.userId, e.type, e.ref>>

\* C12 (ledger idempotency key): in every reachable state of the server no
\* two ledger entries share (userId, type, ref), whether ensureTx or the
\* casual reward of the finish handler wrote them.
C12_LedgerKeyUnique ==
    \A e1 \in db.ledger, e2 \in db.ledger : TxKey(e1) = TxKey(e2) => e1 = e2

\* holdStake, resolveMatch and the casual reward have each written an entry
C12_Witness ==
    /\ \E e \in db.ledger : e.type = "stake_hold"
    /\ \E e \in db.ledger : e.type = "refund" /\ e.ref \in CancelRefs
    /\ \E e \in db.ledger : e.type = "gain" /\ e.ref \in GameRefs

\* C13 (terminal outcome written once): once the result of a staked wager
\* holds a value, no step changes it to a different value.
C13_ResultWrittenOnce ==
    [][\A m \in DOMAIN db.match :
          (db.match[m].stakeCC > 0 /\ db.match[m].result # NoResult)
          => db'.match[m].result = db.match[m].result]_vars

\* C14 (escrow status is monotonic): an escrow whose status has left 'held'
\* keeps the status it has.
C14_EscrowMonotonic ==
    [][\A m \in DOMAIN db.escrow :
          db.escrow[m].status # "held"
          => db'.escrow[m].status = db.escrow[m].status]_vars

\* C15 (escrow matches the ledger): for every wager whose escrow is held,
\* whiteHold + blackHold is the sum of the absolute amounts of the stake_hold
\* entries whose ref is the wager.
C15_EscrowMatchesLedger ==
    \A m \in HeldEscrows(db) :
        db.escrow[m].whiteHold + db.escrow[m].blackHold =
            SumOver(HeldFor(db, m), [e \in HeldFor(db, m) |-> 0 - e.amount])

\* C16 (insufficient funds): a holdStake call with a positive stake on an
\* account whose balance is below the stake, or that has no balance row,
\* throws INSUFFICIENT_FUNDS and leaves balances, ledger and escrow unchanged.
C16_InsufficientFunds ==
    \A m \in MatchIds, who \in Users \cup {NoAccount}, color \in Colors, stake \in Stakes :
        (who = NoAccount \/ db.balance[who] < stake)
        => /\ HoldStakeError(db, who, stake) = "INSUFFICIENT_FUNDS"
           /\ HoldStake(db, m, who, color, stake) = db

\* an account has staked and can no longer afford the stake of an open wager
C16_Witness ==
    \E m \in DOMAIN db.match, who \in Users :
        /\ ResolveOpen(db, m) /\ db.match[m].stakeCC > 0
        /\ HasTx(db, who, "stake_hold", MatchRef(m))
        /\ db.balance[who] < db.match[m].stakeCC

\* C17 (winner required): resolveMatch with result W and no winner, on an
\* open wager with a nonzero escrow and under a game id no other match
\* carries, throws WINNER_REQUIRED and leaves the whole database unchanged.
C17_WinnerRequired ==
    \A m \in DOMAIN db.match : \A a \in ResolveArgs(m) :
        ( /\ ResolveOpen(db, m) /\ Staked(db, m)
          /\ a.result = "W" /\ a.winnerUserId = NoUser
          /\ ~GameIdTaken(db, m, a.lichessGameId) )
        => /\ ResolveMatchError(db, a) = "WINNER_REQUIRED"
           /\ ResolveMatch(db, a) = db

\* an open wager with both stakes held, on which a W without a winner throws
C17_Witness ==
    \E m \in DOMAIN db.escrow : \E a \in ResolveArgs(m) :
        /\ ResolveOpen(db, m) /\ db.escrow[m].status = "held"
        /\ Cardinality(HeldFor(db, m)) = 2
        /\ a.result = "W" /\ a.winnerUserId = NoUser
        /\ ResolveMatchError(db, a) = "WINNER_REQUIRED"

\* C18 (failed matched-pair invitation): the step that ends a join request
\* whose invitation failed leaves the wager settled as 'abort' with its escrow
\* refunded, both accounts refunded the stake held and on the balance they
\* have without the hold, no registry entry for either account, and neither
\* a PendingChallenge nor a timer for the wager.
C18_FailedPairInvite ==
    [][\A c \in Calls :
          (calls[c].op = "join" /\ calls[c].pc = "refund" /\ calls'[c] = Idle)
          => LET m == calls[c].matchId
                 s == calls[c].stake
             IN  /\ db'.match[m].result = "abort"
                 /\ db'.escrow[m].status = "refunded"
                 /\ \A u \in {calls[c].a, calls[c].b} :
                        /\ [userId |-> u, type |-> "refund", amount |-> s,
                            ref |-> CancelRef(m)] \in db'.ledger
                        /\ db'.balance[u] =
                               Credited(db', u, {MatchRef(m), CancelRef(m)})
                        /\ u \notin DOMAIN pendingStakeByUser'
                 /\ m \notin DOMAIN pendingChallenges'
                 /\ m \notin DOMAIN timers']_vars

\* the join request in slot c is between the pairing and the invitation
Pairing(c) == calls[c].op = "join" /\ calls[c].pc \in {"holdA", "checkB", "holdB"}

\* C19 (pairing): a join that makes a key's queue hold two tickets removes
\* the two oldest in FIFO order and creates exactly one wager with the key's
\* stake; when the request then leaves its holds behind, each of the two
\* accounts has the stake held in the wager's escrow and both are in the
\* pending-wager registry, pointing at the wager.
C19_Pairing ==
    [][/\ \A c \in Calls, u \in Users, k \in Stakes :
            (QueueJoin(c, u, k) /\ Len(mmQueues[k]) = 1 /\ mmQueues[k][1] # u)
            => /\ mmQueues'[k] = << >>
               /\ DOMAIN db'.match = DOMAIN db.match \cup {NextMatchId}
               /\ db'.match[NextMatchId] = MatchRow(k)
               /\ Pairing(c)'
               /\ calls'[c].a = mmQueues[k][1] /\ calls'[c].b = u
               /\ calls'[c].matchId = NextMatchId /\ calls'[c].stake = k
       /\ \A c \in Calls :
            (Pairing(c) /\ ~Pairing(c)')
            => LET m == calls[c].matchId
                   s == calls[c].stake
               IN  /\ m \in DOMAIN db'.escrow
                   /\ db'.escrow[m] = [whiteHold |-> s, blackHold |-> s, status |-> "held"]
                   /\ HeldFor(db', m) =
                          {[userId |-> u, type |-> "stake_hold", amount |-> 0 - s,
                            ref |-> MatchRef(m)] : u \in {calls[c].a, calls[c].b}}
                   /\ \A u \in {calls[c].a, calls[c].b} :
                          u \in DOMAIN pendingStakeByUser' /\ pendingStakeByUser'[u] = m]_vars

\* the accounts that have a ticket in queue q, and how many tickets
Tickets(q) == {q[i] : i \in 1..Len(q)}

\* C20 (queue deduplication): no account has two tickets in the queue of one
\* key, and a join by an account that has a ticket in the key's queue changes
\* no queue, no database row, no registry and starts no request.
C20_QueueDedup ==
    [][/\ \A k \in Stakes : Cardinality(Tickets(mmQueues'[k])) = Len(mmQueues'[k])
       /\ \A c \in Calls, u \in Users, k \in Stakes :
            (QueueJoin(c, u, k) /\ u \in Tickets(mmQueues[k]))
            => UNCHANGED <<db, mmQueues, pendingStakeByUser, pendingChallenges,
                           timers, calls>>]_vars

\* an account waits alone in one queue after two requests were served that
\* created no wager, started no request and left the other queues empty
C20_Witness ==
    \E k \in Stakes, u \in Users :
        /\ mmQueues = [x \in Stakes |-> IF x = k THEN <<u>> ELSE << >>]
        /\ served = 2
        /\ NextMatchId = 1 /\ db.ledger = {e \in db.ledger : e.ref = GameRef(0)}
        /\ \A c \in Calls : calls[c] = Idle

\* queue q with every ticket of account u taken out, the rest in their order
RECURSIVE Without(_, _)
Without(q, u) ==
    IF q = << >> THEN << >>
    ELSE IF Head(q) = u THEN Without(Tail(q), u)
    ELSE <<Head(q)>> \o Without(Tail(q), u)

\* C21 (leave): after a leave request of an account the account has a ticket
\* in no queue, every queue holds the tickets of the other accounts in their
\* order, and neither the database nor the registry, the PendingChallenges,
\* the timers or a request in flight has changed; when the account had no
\* ticket the queues are unchanged too.
C21_Leave ==
    [][\A u \in Users :
          QueueLeave(u)
          => /\ \A k \in Stakes :
                    /\ ~InQueue(mmQueues'[k], u)
                    /\ mmQueues'[k] = Without(mmQueues[k], u)
             /\ UNCHANGED <<db, pendingStakeByUser, pendingChallenges, timers, calls>>
             /\ (\A k \in Stakes : ~InQueue(mmQueues[k], u)) => mmQueues' = mmQueues]_vars

\* an account waits in the queue of every key and a leave request can be
\* taken up
C21_Witness ==
    \E u \in Users :
        /\ \A k \in Stakes : mmQueues[k] = <<u>>
        /\ served < MaxServed

\* C22 (no double-dequeue): with join and leave requests interleaved at their
\* awaits, the queue of a key changes in one step only by a leave taking the
\* leaver's tickets out, by a join adding the joiner's ticket, or by a join
\* pairing the oldest ticket with the joiner's, which takes out exactly these
\* two and creates exactly one wager; a request holds a pair only from such a
\* step, its two accounts being the owner of a ticket then in the queue and
\* the joiner.
C22_NoDoubleDequeue ==
    [][/\ \/ mmQueues' = mmQueues
          \/ \E u \in Users :
                /\ QueueLeave(u)
                /\ \A k \in Stakes : mmQueues'[k] = Without(mmQueues[k], u)
          \/ \E c \in Calls, u \in Users, k \in Stakes :
                /\ QueueJoin(c, u, k)
                /\ ~InQueue(mmQueues[k], u)
                /\ \A x \in Stakes \ {k} : mmQueues'[x] = mmQueues[x]
                /\ \/ mmQueues[k] = << >> /\ mmQueues'[k] = <<u>>
                      /\ db'.match = db.match
                   \/ /\ mmQueues[k] # << >> /\ mmQueues'[k] = Tail(mmQueues[k])
                      /\ DOMAIN db'.match = DOMAIN db.match \cup {NextMatchId}
                      /\ NextMatchId \notin DOMAIN db.match
                      /\ db'.match[NextMatchId] = MatchRow(k)
       /\ \A c \in Calls :
            (calls'[c].op = "join" /\ calls[c].op # "join")
            => \E u \in Users, k \in Stakes :
                  /\ QueueJoin(c, u, k)
                  /\ mmQueues[k] # << >>
                  /\ calls'[c].a = Head(mmQueues[k]) /\ calls'[c].a # u
                  /\ calls'[c].b = u
                  /\ calls'[c].matchId = NextMatchId
                  /\ \A x \in Stakes :
                        ~InQueue(mmQueues'[x], u) \/ InQueue(mmQueues[x], u)]_vars

\* while a join request holds its pair, one of the two has taken a ticket
\* under another key
C22_Witness ==
    \E c \in Calls, k \in Stakes :
        /\ Pairing(c)
        /\ k # calls[c].stake
        /\ mmQueues[k] = <<calls[c].a>>

\* the next step of the handler, callback or transaction in slot c: what it
\* does after the await it is waiting on
Continue(c) ==
    \/ PlayStakedHold(c)
    \/ ChallengeHold(c)
    \/ \E ok \in BOOLEAN : ChallengeInvite(c, ok)
    \/ JoinHoldA(c)
    \/ JoinCheckB(c)
    \/ JoinHoldB(c)
    \/ \E ok \in BOOLEAN : JoinInvite(c, ok)
    \/ JoinRefund(c)
    \/ StartLinked(c)
    \/ FinishResolve(c)
    \/ TimerCheck(c)
    \/ TimerCancel(c)

\* the event loop runs every continuation whose await has resolved and every
\* timer whose deadline has passed; requests and stream events come when the
\* clients and the game server send them, or never
Fairness ==
    /\ \A c \in Calls : WF_vars(Continue(c))
    /\ \A m \in MatchIds : WF_vars(\E c \in Calls : TimerFire(c, m))

FairSpec == Spec /\ Fairness

\* the stake of the challenger is held for wager m, the invitation of m has
\* failed and the request has returned: both accounts are registered for m,
\* no timer was armed for it and no handler is at work on it
InviteFailed(m) ==
    /\ m \in HeldEscrows(db)
    /\ \A u \in Users : u \in DOMAIN pendingStakeByUser /\ pendingStakeByUser[u] = m
    /\ m \notin DOMAIN timers
    /\ \A c \in Calls :
           calls[c] = Idle \/
           (IF calls[c].op \in {"finish", "resolveMatch"}
            THEN calls[c].args.matchId ELSE calls[c].matchId) # m

\* C23 (no stranded stake after an external failure): whenever a stake is
\* held for a wager and the invitation issued for it has failed, the escrow
\* of the wager eventually leaves 'held'.
C23_NoStrandedStake ==
    \A m \in MatchIds : InviteFailed(m) ~> (m \notin HeldEscrows(db))

\* C24 (finish signal without a prior start signal): when an account has a
\* staked wager in the registry that no start signal has linked and whose
\* escrow is held, the finish handler taking up a finish signal of the account
\* for a game no wager carries goes on to resolve that wager: it creates no
\* match row and writes no ledger entry of its own.
C24_FinishWithoutStart ==
    [][\A c \in Calls, u \in Users, g \in Games : \A sum \in Summaries :
          ( /\ FinishBegin(c, u, g, sum)
            /\ u \in DOMAIN pendingStakeByUser
            /\ db.match[pendingStakeByUser[u]].lichessGameId = NoRef
            /\ pendingStakeByUser[u] \in HeldEscrows(db)
            /\ MatchOf(db, GameRef(g)) \notin DOMAIN db.match )
          => /\ calls'[c] # Idle
             /\ calls'[c].op = "finish"
             /\ calls'[c].args.matchId = pendingStakeByUser[u]
             /\ DOMAIN db'.match = DOMAIN db.match
             /\ db'.ledger = db.ledger]_vars

\* C25 (indeterminate outcome does not settle): when the finish handler runs
\* on a signal for the game of an open staked wager whose escrow is held, the
\* game has a winner and the acting account is neither of the summary's
\* players, the handler leaves the database as it is: no ledger entry, the
\* escrow 'held', the wager without a result.
C25_IndeterminateLeavesOpen ==
    \A u \in Users, g \in Games : \A sum \in Summaries :
        LET m == MatchOf(db, GameRef(g)) IN
        ( /\ m \in HeldEscrows(db)
          /\ db.match[m].stakeCC > 0
          /\ ResolveOpen(db, m)
          /\ sum.winner # "none"
          /\ IsWhite(u, sum) = "undefined" )
        => FinishDb(db, u, g, sum) = db

\* the refund entries a transaction from d to d2 has added, summed
RefundsAdded(d, d2) ==
    LET es == {e \in d2.ledger \ d.ledger : e.type = "refund"}
    IN  SumOver(es, [e \in es |-> e.amount])

\* C26 (refund completeness): whenever a resolveMatch call, whatever sides it
\* names, sets the status of an escrow to 'refunded', the refund entries it
\* has added to the ledger total whiteHold + blackHold.
C26_RefundComplete ==
    \A m \in DOMAIN db.match : \A a \in ResolveArgs(m) :
        LET d2 == ResolveMatch(db, a) IN
        ( /\ m \in HeldEscrows(db)
          /\ d2.escrow[m].status = "refunded" )
        => RefundsAdded(db, d2) = db.escrow[m].whiteHold + db.escrow[m].blackHold

\* the flat reward of a casual game: 3 for a draw, 1 when there is no winner
\* or the account's colour is unknown, 8 for a win, 1 for a loss
FlatReward(u, sum) ==
    IF sum.status = "draw" THEN 3
    ELSE IF sum.winner = "none" \/ (sum.white # u /\ sum.black # u) THEN 1
    ELSE IF (sum.winner = "white" /\ sum.white = u) \/ (sum.winner = "black" /\ sum.black = u)
    THEN 8
    ELSE 1

\* the gain entries of account u keyed by game g
GainsFor(d, u, g) ==
    {e \in d.ledger : e.userId = u /\ e.type = "gain" /\ e.ref = GameRef(g)}

\* C27 (casual reward): the finish handler run on a signal for a game whose
\* match row has stakeCC = 0 (or has no row yet) leaves every escrow as it is
\* and the account with exactly one gain entry keyed by the game id; when the
\* account had none, the entry added is the only change of the ledger, its
\* amount is the flat reward and the account's balance rises by it.  Run on a
\* signal for a wager with stakeCC > 0, the handler adds no gain entry except
\* a hold of the wager's escrow paid out by a resolution.
C27_CasualReward ==
    \A u \in Users, g \in Games : \A sum \in Summaries :
        LET m == MatchOf(db, GameRef(g))
            stake == IF m \in DOMAIN db.match THEN db.match[m].stakeCC ELSE 0
            d2 == FinishDb(db, u, g, sum)
            reward == [userId |-> u, type |-> "gain", amount |-> FlatReward(u, sum),
                       ref |-> GameRef(g)]
        IN  IF stake = 0
            THEN /\ d2.escrow = db.escrow
                 /\ Cardinality(GainsFor(d2, u, g)) = 1
                 /\ GainsFor(db, u, g) = {}
                    => /\ d2.ledger = db.ledger \cup {reward}
                       /\ d2.balance = [db.balance EXCEPT ![u] = @ + FlatReward(u, sum)]
                 /\ GainsFor(db, u, g) # {}
                    => d2.ledger = db.ledger /\ d2.balance = db.balance
            ELSE \A e \in d2.ledger \ db.ledger :
                     e.type = "gain"
                     => /\ d2.escrow[m].status = "resolved"
                        /\ e.amount \in {db.escrow[m].whiteHold, db.escrow[m].blackHold}

\* a casual game was won by one account, rewarded with 8, and lost by another,
\* rewarded with 1
C27_Witness ==
    \E u \in Users, v \in Users, g \in Games :
        /\ [userId |-> u, type |-> "gain", amount |-> 8, ref |-> GameRef(g)] \in db.ledger
        /\ [userId |-> v, type |-> "gain", amount |-> 1, ref |-> GameRef(g)] \in db.ledger
        /\ db.match[MatchOf(db, GameRef(g))].stakeCC = 0
        /\ db.balance[u] = DrawReward + 8

\* C28 (finish cleanup): the step that ends the handling of a finish signal
\* for a staked wager without an error leaves no account with a registry
\* entry pointing at the wager, no PendingChallenge for it and no armed timer
\* for it, whatever players the summary named.
C28_FinishCleanup ==
    [][\A c \in Calls :
          ( /\ calls[c].op = "finish"
            /\ calls'[c] = Idle
            /\ ~(calls[c].open /\ ResolveThrows(db, calls[c].args)) )
          => LET m == calls[c].args.matchId
             IN  /\ \A u \in DOMAIN pendingStakeByUser' : pendingStakeByUser'[u] # m
                 /\ m \notin DOMAIN pendingChallenges'
                 /\ ~(m \in DOMAIN timers' /\ timers'[m].state = "armed")]_vars

\* C29 (timeout cleanup): the step in which the deadline timer of a direct
\* challenge or of a matched queue pair cancels its wager leaves both
\* accounts of the wager without a registry entry and the PendingChallenge
\* table without an entry for the wager.
C29_TimeoutCleanup ==
    [][\A c \in Calls :
          ( /\ calls[c].op = "timeout" /\ calls[c].pc = "cancel"
            /\ calls'[c] = Idle
            /\ calls[c].open
            /\ db'.match[calls[c].matchId].result = "abort" )
          => LET m == calls[c].matchId
             IN  /\ timers[m].a \notin DOMAIN pendingStakeByUser'
                 /\ timers[m].b \notin DOMAIN pendingStakeByUser'
                 /\ m \notin DOMAIN pendingChallenges']_vars

\* C30 (start signal): the start handler taking up a signal of an account
\* with a registry entry attaches the signalled game id to the entry's wager,
\* and when it ends the PendingChallenge of that wager, if there is one, is
\* marked started and its timer is not armed; taking up a signal of an
\* account without a registry entry changes neither the database nor the
\* registry, the PendingChallenges or the timers.
C30_StartSignal ==
    [][/\ \A c \in Calls, u \in Users, g \in Games :
            StartBegin(c, u, g)
            => IF u \in DOMAIN pendingStakeByUser
               THEN db'.match[pendingStakeByUser[u]].lichessGameId = GameRef(g)
               ELSE UNCHANGED <<db, pendingStakeByUser, pendingChallenges, timers>>
       /\ \A c \in Calls :
            ( /\ calls[c].op = "start" /\ calls'[c] = Idle
              /\ calls[c].matchId \in DOMAIN pendingChallenges )
            => /\ calls[c].matchId \in DOMAIN pendingChallenges'
               /\ pendingChallenges'[calls[c].matchId].started
               /\ timers'[calls[c].matchId].state # "armed"]_vars

\* C31 (unknown wager): a resolveMatch call naming a match id that has no
\* match row throws MATCH_NOT_FOUND and leaves the database as it is: no
\* match row created, no ledger entry, no balance or escrow changed.
C31_UnknownWager ==
    \A m \in MatchIds \ DOMAIN db.match : \A a \in ResolveArgs(m) :
        /\ ResolveMatchError(db, a) = "MATCH_NOT_FOUND"
        /\ ResolveMatch(db, a) = db

\* a stake is held for one wager while another match id has no row, and a
\* resolveMatch call naming that id throws
C31_Witness ==
    \E m \in MatchIds \ DOMAIN db.match : \E a \in ResolveArgs(m) :
        /\ HeldEscrows(db) # {}
        /\ a.result = "abort"
        /\ ResolveMatchError(db, a) = "MATCH_NOT_FOUND"

\* the database d with the result and the game id of call a recorded on the
\* match row, and nothing else changed
Recorded(d, a) ==
    [d EXCEPT !.match[a.matchId].result = a.result,
              !.match[a.matchId].lichessGameId = a.lichessGameId]

\* C32 as stated (unstaked resolve): a resolveMatch call on an open wager that
\* has no escrow row, or whose escrow holds nothing, records the result on the
\* match row and changes nothing else: no ledger entry, no balance, no escrow
\* row.
C32_UnstakedResolveAnyId ==
    \A m \in DOMAIN db.match : \A a \in ResolveArgs(m) :
        (ResolveOpen(db, m) /\ ~Staked(db, m))
        => /\ ResolveMatch(db, a).match[m].result = a.result
           /\ ResolveMatch(db, a) = Recorded(db, a)

\* C32 (unstaked resolve, under a free game id): the same, for the calls
\* whose game id no other match row carries; the call returns without an
\* error, the result and the game id are on the match row and the other rows,
\* the ledger, the balances and the escrow rows are unchanged.
C32_UnstakedResolve ==
    \A m \in DOMAIN db.match : \A a \in ResolveArgs(m) :
        ( /\ ResolveOpen(db, m)
          /\ ~Staked(db, m)
          /\ ~GameIdTaken(db, m, a.lichessGameId) )
        => /\ ResolveMatchError(db, a) = "none"
           /\ ResolveMatch(db, a).match[m].result = a.result
           /\ ResolveMatch(db, a) = Recorded(db, a)

\* an open wager has no escrow row while a stake is held for another wager,
\* and a resolveMatch call on it under a free game id records its result
C32_Witness ==
    \E m \in DOMAIN db.match : \E a \in ResolveArgs(m) :
        /\ ResolveOpen(db, m) /\ m \notin DOMAIN db.escrow
        /\ db.match[m].stakeCC > 0
        /\ HeldEscrows(db) # {}
        /\ ~GameIdTaken(db, m, a.lichessGameId)
        /\ ResolveMatch(db, a).match[m].result = a.result
        /\ ResolveMatch(db, a) # db

\* C33 (lichess link switch guard): for a user whose lichessId (or
\* lichessUsername) is not NULL, an update that changes it to another value
\* that is not NULL is rejected and leaves the row as it is, while the unlink
\* that sets both columns to NULL is applied, after which the callback links
\* any account no other user carries.
C33_LinkSwitchGuard ==
    \A u \in Users :
        LET old == db.user[u]
            unlinked == UpdateUser(db, u, LinkRow(NoLink, NoLink))
        IN  /\ \A id \in LichessAccounts, name \in LinkValues :
                   (old.lichessId # NoLink /\ id # old.lichessId)
                   => /\ UpdateUserError(db, u, LinkRow(id, name)) = "23514"
                      /\ UpdateUser(db, u, LinkRow(id, name)) = db
            /\ \A id \in LinkValues, name \in LichessAccounts :
                   (old.lichessUsername # NoLink /\ name # old.lichessUsername)
                   => /\ UpdateUserError(db, u, LinkRow(id, name)) = "23514"
                      /\ UpdateUser(db, u, LinkRow(id, name)) = db
            /\ (old.lichessId # NoLink \/ old.lichessUsername # NoLink)
               => /\ UpdateUserError(db, u, LinkRow(NoLink, NoLink)) = "none"
                  /\ unlinked.user[u] = LinkRow(NoLink, NoLink)
                  /\ \A acc \in LichessAccounts :
                         ~LinkTaken(unlinked, u, LinkRow(acc, acc))
                         => UpdateUser(unlinked, u, LinkRow(acc, acc)).user[u] =
                                LinkRow(acc, acc)

\* the balance of every account of d is the sum of its ledger amounts
Projected(d) == \A u \in DOMAIN d.balance : d.balance[u] = Credited(d, u, {})

\* C34 (balance is the ledger's projection): in every reachable state the
\* balance of each account is the sum of the amounts of all its ledger
\* entries, whatever holds, resolutions and casual rewards were run, and it
\* still is after ensureTx is called with the key of an existing entry and
\* another amount.
C34_LedgerProjection ==
    /\ Projected(db)
    /\ \A e \in db.ledger : \A amount \in (0 - MaxStake)..WinReward :
           Projected(EnsureTx(db, e.userId, e.type, amount, e.ref))

\* a stake was held, the wager was ended and the stake given back, a casual
\* game other than game 0 was rewarded, and ensureTx called with the key of
\* the hold and another amount leaves the database as it is
C34_Witness ==
    \E m \in DOMAIN db.match : \E h \in HeldFor(db, m) : \E g \in Games :
        /\ m \in DOMAIN db.escrow /\ db.escrow[m].status # "held"
        /\ db.match[m].lichessGameId # GameRef(g)
        /\ \E u \in Users : HasTx(db, u, "gain", GameRef(g))
        /\ \E r \in db.ledger : r.type = "refund" /\ r.userId = h.userId /\ r.amount > 0
        /\ EnsureTx(db, h.userId, h.type, h.amount - 1, h.ref) = db

\* the unsettled wagers account u has stake held in
PendingOf(d, u) ==
    {m \in HeldEscrows(d) : d.match[m].result = NoResult
                            /\ \E e \in HeldFor(d, m) : e.userId = u}

\* C35 (one pending wager per account): in every reachable state an account
\* has stake held in at most one unsettled wager, and when it has a registry
\* entry and such a wager, the entry designates that wager.
C35_OnePendingWager ==
    \A u \in Users :
        /\ Cardinality(PendingOf(db, u)) <= 1
        /\ (u \in DOMAIN pendingStakeByUser /\ PendingOf(db, u) # {})
           => pendingStakeByUser[u] \in PendingOf(db, u)

====
